---- MODULE Spec2Model ----
(***************************************************************************)
(* Model of app.py: the StreamToExpander output sink (write / flush, ANSI  *)
(* SGR stripping, bounded fragment buffer) and the control flow of main()  *)
(* that installs the sink as sys.stdout and drives one grant run.          *)
(*                                                                         *)
(* A Python str is a sequence of one-character strings; ESC stands for the *)
(* single character 0x1B.  A Python value handed to write is a record      *)
(* [type, val]; type "str" carries the text in val.                        *)
(***************************************************************************)
EXTENDS Integers, Sequences, FiniteSets, TLC

VARIABLES
    buffer,               \* StreamToExpander.buffer: list of cleaned fragments
    buffer_limit,         \* StreamToExpander.buffer_limit
    renders,              \* contents of the expander.markdown calls, in order
    lastOp,               \* the last call on the sink, with its pre-state
    written,              \* raw fragments of the write calls that returned
    evictions,            \* number of buffer.pop(0) that removed a fragment
    sinceRender,          \* cleaned fragments appended since the last render
    calls,                \* number of write/flush calls made so far
    pc,                   \* position of main()
    stdout,               \* what sys.stdout refers to
    button,               \* st.button(...) returned True
    org_name, org_mission, project_description, funding_amount,
    agents,               \* outcome of create_agents
    agentCalls,           \* number of create_agents calls
    tasks,                \* outcome of create_tasks
    crews,                \* number of Crew objects constructed
    kickoffs,             \* number of grant_crew.kickoff calls
    result,               \* value returned by run_grant_process
    shown,                \* UI elements produced by this run
    input                 \* the fragment under test in StripSpec

sinkVars == <<buffer, buffer_limit, renders, lastOp, written, evictions,
              sinceRender, calls>>
mainVars == <<pc, stdout, button, org_name, org_mission, project_description,
              funding_amount, agents, agentCalls, tasks, crews, kickoffs,
              result, shown>>
vars == <<sinkVars, mainVars, input>>

----------------------------------------------------------------------------
(* Bounds *)
MaxLimit == 2
MaxCalls == 4
MaxLen == 5
MaxFunding == 1

(* buffer_limit=10000, the default of StreamToExpander.__init__ *)
DefaultBufferLimit == 10000

----------------------------------------------------------------------------
(* Characters and text *)
ESC == "ESC"
NL == "\n"
Digits == {"0", "1", "2", "3", "4", "5", "6", "7", "8", "9"}
Alphabet == {ESC, "[", "1", ";", "m", "a", NL}

Str(s) == [type |-> "str", val |-> s]
NoData == [type |-> "none", val |-> <<>>]
NonText == [type |-> "int", val |-> <<>>]

(* the length of the run of decimal digits of s that starts at position i *)
RECURSIVE DigitRun(_, _)
DigitRun(s, i) ==
    IF i <= Len(s) /\ s[i] \in Digits THEN 1 + DigitRun(s, i + 1) ELSE 0

(* \x1B\[\d*;?\d*m : the pattern with the first digit made optional *)
MatchEndNoDigit(s, i) ==
    IF i + 1 <= Len(s) /\ s[i] = ESC /\ s[i + 1] = "["
    THEN LET p  == i + 2 + DigitRun(s, i + 2)
             p2 == IF p <= Len(s) /\ s[p] = ";" THEN p + 1 ELSE p
             p3 == p2 + DigitRun(s, p2)
         IN  IF p3 <= Len(s) /\ s[p3] = "m" THEN p3 ELSE 0
    ELSE 0

(* the end of the match of r'\x1B\[\d+;?\d*m' that starts at position i of *)
(* s, or 0 when the pattern does not match there                           *)
MatchEnd(s, i) ==
    IF i + 1 <= Len(s) /\ s[i] = ESC /\ s[i + 1] = "["
    THEN LET d1 == DigitRun(s, i + 2)
             p  == i + 2 + d1
             p2 == IF p <= Len(s) /\ s[p] = ";" THEN p + 1 ELSE p
             p3 == p2 + DigitRun(s, p2)
         IN  IF d1 >= 1 /\ p3 <= Len(s) /\ s[p3] = "m" THEN p3 ELSE 0
    ELSE 0

(* re.sub(pattern, '', data): scan left to right, drop each match *)
RECURSIVE StripFrom(_, _)
StripFrom(s, i) ==
    IF i > Len(s) THEN <<>>
    ELSE IF MatchEnd(s, i) > 0 THEN StripFrom(s, MatchEnd(s, i) + 1)
    ELSE <<s[i]>> \o StripFrom(s, i + 1)

Strip(s) == StripFrom(s, 1)

(* ''.join(list) *)
RECURSIVE Join(_)
Join(list) == IF list = <<>> THEN <<>> ELSE Head(list) \o Join(Tail(list))

(* "\n" in data *)
HasNewline(s) == \E i \in 1..Len(s) : s[i] = NL

----------------------------------------------------------------------------
(* StreamToExpander *)

(* if len(self.buffer) > self.buffer_limit: an off-by-one capacity test *)
AfterEvictLate(buf, limit) == IF Len(buf) > limit THEN Tail(buf) ELSE buf

(* if len(self.buffer) >= self.buffer_limit: self.buffer.pop(0) *)
AfterEvict(buf, limit) == IF Len(buf) >= limit THEN Tail(buf) ELSE buf

(* pop(0) on an empty list raises IndexError *)
PopRaises(buf, limit) == Len(buf) >= limit /\ buf = <<>>

(* a clear() that leaves the list as it was *)
ClearKeeps(buf) == buf

(* self.buffer.clear() *)
Clear(buf) == <<>>

(* a flush that renders whatever the buffer holds *)
ShouldFlushAlways(buf) == TRUE

(* if self.buffer: *)
ShouldFlush(buf) == buf # <<>>

Op(name, data, outcome) ==
    [op |-> name, data |-> data, outcome |-> outcome, prev |-> lastOp.op,
     pre |-> buffer, preRenders |-> renders]

(* StreamToExpander.write(data) *)
WriteCall(data) ==
    /\ calls < MaxCalls
    /\ calls' = calls + 1
    /\ IF data.type # "str"
       THEN /\ lastOp' = Op("write", data, "TypeError")
            /\ UNCHANGED <<buffer, renders, written, evictions, sinceRender>>
       ELSE IF PopRaises(buffer, buffer_limit)
       THEN /\ lastOp' = Op("write", data, "IndexError")
            /\ UNCHANGED <<buffer, renders, written, evictions, sinceRender>>
       ELSE LET cleaned_data == Strip(data.val)
                appended == Append(AfterEvict(buffer, buffer_limit), cleaned_data)
            IN  /\ lastOp' = Op("write", data, "returned")
                /\ written' = Append(written, data.val)
                /\ evictions' = evictions + (Len(buffer) + 1 - Len(appended))
                /\ IF HasNewline(data.val)
                   THEN /\ renders' = Append(renders, Join(appended))
                        /\ buffer' = Clear(appended)
                        /\ sinceRender' = <<>>
                   ELSE /\ renders' = renders
                        /\ buffer' = appended
                        /\ sinceRender' = Append(sinceRender, cleaned_data)
    /\ UNCHANGED buffer_limit

(* StreamToExpander.flush() *)
FlushCall ==
    /\ calls < MaxCalls
    /\ calls' = calls + 1
    /\ lastOp' = Op("flush", NoData, "returned")
    /\ IF ShouldFlush(buffer)
       THEN /\ renders' = Append(renders, Join(buffer))
            /\ buffer' = Clear(buffer)
            /\ sinceRender' = <<>>
       ELSE UNCHANGED <<buffer, renders, sinceRender>>
    /\ UNCHANGED <<buffer_limit, written, evictions>>

(* the state of a sink right after __init__ *)
NewSink(limit) ==
    /\ buffer = <<>>
    /\ buffer_limit = limit
    /\ renders = <<>>
    /\ lastOp = [op |-> "init", data |-> NoData, outcome |-> "returned",
                 prev |-> "none", pre |-> <<>>, preRenders |-> <<>>]
    /\ written = <<>>
    /\ evictions = 0
    /\ sinceRender = <<>>
    /\ calls = 0

NoRun ==
    /\ pc = "no_run"
    /\ stdout = "orig"
    /\ button = FALSE
    /\ org_name = ""
    /\ org_mission = ""
    /\ project_description = ""
    /\ funding_amount = 0
    /\ agents = "unset"
    /\ agentCalls = 0
    /\ tasks = "unset"
    /\ crews = 0
    /\ kickoffs = 0
    /\ result = "unset"
    /\ shown = {}

----------------------------------------------------------------------------
(* The sink on its own: any limit, any sequence of write and flush calls *)

TextInputs ==
    { <<"a">>, <<"b">>, <<"c">>, <<"a", NL>>,
      <<ESC, "[", "1", "m">>, <<ESC, "[", "1", "m", "a", NL>>,
      <<ESC, "[", "m">> }

Inputs == {Str(s) : s \in TextInputs} \cup {NonText}

Init ==
    /\ \E limit \in 0..MaxLimit : NewSink(limit)
    /\ NoRun
    /\ input = <<>>

Write ==
    /\ \E data \in Inputs : WriteCall(data)
    /\ UNCHANGED <<mainVars, input>>

Flush ==
    /\ FlushCall
    /\ UNCHANGED <<mainVars, input>>

Next == Write \/ Flush

Spec == Init /\ [][Next]_vars

----------------------------------------------------------------------------
(* One write of an arbitrary bounded text to a freshly constructed sink *)

RECURSIVE Texts(_)
Texts(n) == IF n = 0 THEN {<<>>}
            ELSE Texts(n - 1) \cup [1..n -> Alphabet]

StripInit ==
    /\ NewSink(DefaultBufferLimit)
    /\ NoRun
    /\ input \in Texts(MaxLen)

StripWrite ==
    /\ written = <<>>
    /\ WriteCall(Str(input))
    /\ UNCHANGED <<mainVars, input>>

StripNext == StripWrite \/ Flush

StripSpec == StripInit /\ [][StripNext]_vars

----------------------------------------------------------------------------
(* main(): one script run *)

(* truthiness of a str and of an int *)
TruthyStr(x) == x # ""
TruthyInt(x) == x # 0

(* a validation that forgets the funding amount *)
FieldsOkNoFunding(name, mission, project, funding) ==
    TruthyStr(name) /\ TruthyStr(mission) /\ TruthyStr(project)

(* if org_name and org_mission and project_description and funding_amount *)
FieldsOk(name, mission, project, funding) ==
    TruthyStr(name) /\ TruthyStr(mission) /\ TruthyStr(project)
        /\ TruthyInt(funding)

(* the sink main constructs at the button press takes the default limit;   *)
(* nothing touches it before, so it is laid out in the initial state       *)
MainInit ==
    /\ NewSink(DefaultBufferLimit)
    /\ pc = "button"
    /\ stdout = "orig"
    /\ button \in BOOLEAN
    /\ org_name \in {"", "org"}
    /\ org_mission \in {"", "mission"}
    /\ project_description \in {"", "project"}
    /\ funding_amount \in 0..MaxFunding
    /\ agents = "unset"
    /\ agentCalls = 0
    /\ tasks = "unset"
    /\ crews = 0
    /\ kickoffs = 0
    /\ result = "unset"
    /\ shown = {}
    /\ input = <<>>

(* if st.button(...): expander, sys.stdout = StreamToExpander(expander) *)
Button ==
    /\ pc = "button"
    /\ IF button
       THEN /\ stdout' = "sink"
            /\ pc' = "validate"
       ELSE /\ stdout' = stdout
            /\ pc' = "done"
    /\ UNCHANGED <<sinkVars, button, org_name, org_mission, project_description,
                   funding_amount, agents, agentCalls, tasks, crews, kickoffs,
                   result, shown, input>>

(* the required-fields test and its else branch *)
Validate ==
    /\ pc = "validate"
    /\ IF FieldsOk(org_name, org_mission, project_description, funding_amount)
       THEN /\ pc' = "create_agents"
            /\ shown' = shown
       ELSE /\ pc' = "done"
            /\ shown' = shown \cup {"required_fields_error"}
    /\ UNCHANGED <<sinkVars, stdout, button, org_name, org_mission,
                   project_description, funding_amount, agents, agentCalls,
                   tasks, crews, kickoffs, result, input>>

(* create_agents(llm) and the test `if researcher and analyzer and writer` *)
CreateAgents ==
    /\ pc = "create_agents"
    /\ agentCalls' = agentCalls + 1
    /\ \/ /\ agents' = "created"
          /\ pc' = "create_tasks"
          /\ shown' = shown
       \/ /\ agents' = "none"
          /\ pc' = "done"
          /\ shown' = shown \cup {"agents_error"}
    /\ UNCHANGED <<sinkVars, stdout, button, org_name, org_mission,
                   project_description, funding_amount, tasks, crews, kickoffs,
                   result, input>>

(* create_tasks(researcher, analyzer, writer) *)
CreateTasks ==
    /\ pc = "create_tasks"
    /\ \/ /\ tasks' = "three"
          /\ shown' = shown
       \/ /\ tasks' = "empty"
          /\ shown' = shown \cup {"tasks_error"}
    /\ pc' = "crew"
    /\ UNCHANGED <<sinkVars, stdout, button, org_name, org_mission,
                   project_description, funding_amount, agents, agentCalls,
                   crews, kickoffs, result, input>>

(* Crew(agents=..., tasks=tasks, verbose=True): returns, or raises out of main *)
MakeCrew ==
    /\ pc = "crew"
    /\ \/ /\ crews' = crews + 1
          /\ pc' = "kickoff"
       \/ /\ crews' = crews
          /\ pc' = "raised"
    /\ UNCHANGED <<sinkVars, stdout, button, org_name, org_mission,
                   project_description, funding_amount, agents, agentCalls,
                   tasks, kickoffs, result, shown, input>>

(* run_grant_process(grant_crew, input_data) *)
RunGrantProcess ==
    /\ pc = "kickoff"
    /\ kickoffs' = kickoffs + 1
    /\ \/ /\ result' \in {"text", ""}
          /\ shown' = shown \cup {"success"}
       \/ /\ result' = "None"
          /\ shown' = shown \cup {"process_error"}
    /\ pc' = "results"
    /\ UNCHANGED <<sinkVars, stdout, button, org_name, org_mission,
                   project_description, funding_amount, agents, agentCalls,
                   tasks, crews, input>>

(* if result: subheader, markdown(result), generate_download_link(result) *)
ShowResults ==
    /\ pc = "results"
    /\ IF result \notin {"", "None"}
       THEN \/ shown' = shown \cup {"results", "download_button"}
            \/ shown' = shown \cup {"results", "download_error"}
       ELSE shown' = shown
    /\ pc' = "done"
    /\ UNCHANGED <<sinkVars, stdout, button, org_name, org_mission,
                   project_description, funding_amount, agents, agentCalls,
                   tasks, crews, kickoffs, result, input>>

(* a library called by main prints: sys.stdout.write(text) reaches the sink *)
LibraryPrint ==
    /\ pc \in {"create_agents", "create_tasks", "crew", "kickoff"}
    /\ stdout = "sink"
    /\ \E s \in TextInputs : WriteCall(Str(s))
    /\ UNCHANGED <<mainVars, input>>

MainNext ==
    \/ Button
    \/ Validate
    \/ CreateAgents
    \/ CreateTasks
    \/ MakeCrew
    \/ RunGrantProcess
    \/ ShowResults
    \/ LibraryPrint

MainSpec == MainInit /\ [][MainNext]_vars

----------------------------------------------------------------------------
(* Reference definitions used to state the properties *)

AllDigits(w, a, b) == \A k \in a..b : w[k] \in Digits

(* w is ESC [ digits+ ;? digits* m *)
SgrWord(w) ==
    /\ Len(w) >= 4
    /\ w[1] = ESC /\ w[2] = "[" /\ w[Len(w)] = "m"
    /\ \E p \in 3..(Len(w) - 1) :
          /\ AllDigits(w, 3, p)
          /\ \/ AllDigits(w, p + 1, Len(w) - 1)
             \/ /\ p + 1 <= Len(w) - 1
                /\ w[p + 1] = ";"
                /\ AllDigits(w, p + 2, Len(w) - 1)

(* w is ESC [ digits+ ( ; digits+ )? m *)
SgrWordStrict(w) ==
    /\ Len(w) >= 4
    /\ w[1] = ESC /\ w[2] = "[" /\ w[Len(w)] = "m"
    /\ \/ AllDigits(w, 3, Len(w) - 1)
       \/ \E p \in 3..(Len(w) - 1) :
             /\ AllDigits(w, 3, p)
             /\ p + 2 <= Len(w) - 1
             /\ w[p + 1] = ";"
             /\ AllDigits(w, p + 2, Len(w) - 1)

(* the positions of s that lie inside an occurrence of a word of W; two     *)
(* occurrences never overlap, since ESC occurs only as their first character*)
Covered(s, W(_)) ==
    {k \in 1..Len(s) : \E i \in 1..k, j \in k..Len(s) : W(SubSeq(s, i, j))}

RECURSIVE KeepFrom(_, _, _)
KeepFrom(s, R, i) ==
    IF i > Len(s) THEN <<>>
    ELSE (IF i \in R THEN <<>> ELSE <<s[i]>>) \o KeepFrom(s, R, i + 1)

WithoutSgr(s) == KeepFrom(s, Covered(s, SgrWord), 1)
WithoutSgrStrict(s) == KeepFrom(s, Covered(s, SgrWordStrict), 1)

RECURSIVE JoinWithoutSgr(_)
JoinWithoutSgr(list) ==
    IF list = <<>> THEN <<>>
    ELSE WithoutSgr(Head(list)) \o JoinWithoutSgr(Tail(list))

LastN(list, n) == SubSeq(list, Len(list) - n + 1, Len(list))
Min(a, b) == IF a <= b THEN a ELSE b

TextWrite == lastOp.op = "write" /\ lastOp.data.type = "str"

----------------------------------------------------------------------------
(* C1: after any sequence of write and flush calls on a sink with a        *)
(* non-negative buffer_limit, the buffer holds at most buffer_limit         *)
(* fragments whenever a write has completed.                                *)
BufferWithinLimit ==
    lastOp.op \in {"write", "flush"} => Len(buffer) <= buffer_limit

(* a write that returned after evicting, the buffer being full again *)
EvictedAtCapacity ==
    /\ TextWrite /\ lastOp.outcome = "returned"
    /\ Len(lastOp.pre) = buffer_limit
    /\ Len(buffer) = buffer_limit
    /\ evictions > 0

(* C2 as stated: after a flush the rendered contents, concatenated, are    *)
(* the written fragments, concatenated, with the SGR sequences removed.     *)
RenderedEqualsWritten ==
    lastOp.op = "flush" => Join(renders) = JoinWithoutSgr(written)

(* C2 amended: as long as no fragment has been evicted at capacity, the     *)
(* rendered contents followed by the fragments still buffered are the       *)
(* fragments of the completed writes, in order, with SGR sequences removed; *)
(* after a flush the rendered contents alone are.                           *)
RenderedEqualsWrittenUnlessEvicted ==
    evictions = 0 =>
        /\ Join(renders) \o Join(buffer) = JoinWithoutSgr(written)
        /\ lastOp.op = "flush" => Join(renders) = JoinWithoutSgr(written)

(* a final flush that rendered the tail of several writes, nothing evicted *)
FlushedAllWritten ==
    /\ lastOp.op = "flush" /\ lastOp.pre # <<>>
    /\ evictions = 0
    /\ Len(written) >= 3
    /\ Len(renders) >= 2
    /\ \E i \in 1..Len(written) : written[i] # WithoutSgr(written[i])

(* C3: a write whose raw fragment contains a newline makes exactly one      *)
(* display update, of the buffer with the cleaned fragment appended, and    *)
(* leaves the buffer empty; a write without a newline makes no update.      *)
NewlineWriteRendersOnce ==
    TextWrite =>
        IF HasNewline(lastOp.data.val)
        THEN /\ renders = Append(lastOp.preRenders,
                     Join(Append(IF Len(lastOp.pre) >= buffer_limit /\ lastOp.pre # <<>>
                                 THEN Tail(lastOp.pre) ELSE lastOp.pre,
                                 WithoutSgr(lastOp.data.val))))
             /\ buffer = <<>>
        ELSE renders = lastOp.preRenders

(* C4: flush on a non-empty buffer makes exactly one display update with    *)
(* the concatenated buffer and empties it; on an empty buffer it makes no   *)
(* update and changes nothing, so a flush right after a flush is a no-op.   *)
FlushRendersOnceThenNoOp ==
    lastOp.op = "flush" =>
        /\ lastOp.outcome = "returned"
        /\ buffer = <<>>
        /\ IF lastOp.pre # <<>>
           THEN renders = Append(lastOp.preRenders, Join(lastOp.pre))
           ELSE renders = lastOp.preRenders
        /\ lastOp.prev = "flush" => renders = lastOp.preRenders

(* a second flush in a row, the first of which had something to render *)
FlushAfterFlush ==
    /\ lastOp.op = "flush" /\ lastOp.prev = "flush"
    /\ lastOp.pre = <<>>
    /\ renders # <<>>
    /\ ~HasNewline(written[Len(written)])

(* C5: a newline-free write into a buffer that holds buffer_limit fragments *)
(* removes exactly the oldest one and appends the cleaned fragment; after a *)
(* run of n newline-free writes the buffer is the last min(n, buffer_limit) *)
(* cleaned fragments in arrival order.                                      *)
EvictsOldestOnly ==
    /\ (TextWrite /\ ~HasNewline(lastOp.data.val) /\ Len(lastOp.pre) = buffer_limit)
         => /\ lastOp.pre # <<>>
            /\ buffer = Append(Tail(lastOp.pre), WithoutSgr(lastOp.data.val))
    /\ buffer = LastN(sinceRender, Min(Len(sinceRender), buffer_limit))

(* C6: write and flush never raise, whatever the input and the state; text  *)
(* with an unmatched escape fragment is buffered as it is.                  *)
NeverRaises ==
    /\ lastOp.outcome = "returned"
    /\ (TextWrite /\ Covered(lastOp.data.val, SgrWord) = {}
                  /\ ~HasNewline(lastOp.data.val))
         => buffer # <<>> /\ buffer[Len(buffer)] = lastOp.data.val

RunEnded == button /\ pc \in {"done", "raised"}

(* C7: when a run started by the button has ended, on every exit path,      *)
(* sys.stdout has been restored and no longer refers to the run's sink.     *)
StdoutRestoredAfterRun == RunEnded => stdout = "orig"

NothingBufferedAfterRun == RunEnded => buffer = <<>>

(* C10: kickoff is invoked at most once and only if the four required       *)
(* fields are truthy (funding 0 is missing) and the agents were created;    *)
(* with a field missing no agent, task or crew is created and the           *)
(* required-fields error is shown; results and the download button appear   *)
(* only when kickoff returned a truthy result.                              *)
KickoffOnlyWhenValid ==
    /\ kickoffs <= 1
    /\ kickoffs = 1 =>
          /\ TruthyStr(org_name) /\ TruthyStr(org_mission)
          /\ TruthyStr(project_description) /\ TruthyInt(funding_amount)
          /\ agents = "created"
    /\ ~(TruthyStr(org_name) /\ TruthyStr(org_mission)
          /\ TruthyStr(project_description) /\ TruthyInt(funding_amount)) =>
          /\ agentCalls = 0 /\ agents = "unset" /\ tasks = "unset" /\ crews = 0
          /\ RunEnded => "required_fields_error" \in shown
    /\ ({"results", "download_button"} \cap shown # {}) =>
          kickoffs = 1 /\ result \notin {"", "None", "unset"}

(* a run that kicked off once and showed results with the download button *)
ResultsShownAfterKickoff ==
    /\ pc = "done" /\ kickoffs = 1
    /\ {"results", "download_button"} \subseteq shown
    /\ funding_amount > 0

====
